---- MODULE Spec2Model ----
(***************************************************************************)
(* Decision logic of the agent-framework samples:                          *)
(*   - the approval gate and its audit history (025_approval_flows.py),    *)
(*   - the group-chat speaker selectors (020_group_chat_workflow.py),      *)
(*   - the WebSocket chat manager and its per-user threads                 *)
(*     (011_assistant_websocket_agent_framework.py),                       *)
(*   - the retry decorator (024_custom_tools_advanced.py).                 *)
(* Time is counted in tenths of a second.                                  *)
(***************************************************************************)
EXTENDS Integers, Sequences, FiniteSets, TLC

VARIABLES
    requests,           \* every ApprovalRequest object created so far, by identity
    pending_requests,   \* ApprovalManager.pending_requests (list of request ids)
    history,            \* ApprovalManager.history (list of request ids)
    auto_approve_mode,  \* ApprovalManager.auto_approve_mode
    calls,              \* the coroutines of the gated entry points, one per call
    now,                \* datetime.now(), a logical clock
    selector,           \* the selector function installed in the group chat
    state,              \* the GroupChatStateSnapshot handed to the selector
    selected,           \* what the selector returned last
    returned,           \* what the ApprovalAuditor returned last
    user_threads,       \* AgentFrameworkChatManager.user_threads
    active_connections, \* AgentFrameworkChatManager.active_connections
    endpoints,          \* the websocket_chat_endpoint coroutines, one per socket
    threads_created,    \* number of threads the agent service has created
    cleared,            \* the (user, thread) pairs reported as cleared
    retry               \* the coroutine of one call of a retry_on_failure wrapper

vars == <<requests, pending_requests, history, auto_approve_mode, calls, now,
          selector, state, selected, returned,
          user_threads, active_connections, endpoints, threads_created, cleared, retry>>

approvalVars == <<requests, pending_requests, history, auto_approve_mode, calls, now>>
chatVars == <<selector, state, selected>>
auditVars == <<returned>>
wsVars == <<user_threads, active_connections, endpoints, threads_created, cleared>>
retryVars == <<retry>>
extraVars == <<wsVars, retryVars>>
idleVars == <<selector, state, selected, returned, extraVars>>

None == "None"
NotCalled == "NotCalled"

\* the auditor has returned nothing yet
NoReturn == [call |-> NotCalled, history_len |-> 0, raised |-> None, value |-> [nothing |-> TRUE]]

\* ------------------------------------------------------------------------
\* Bounds of the model
\* ------------------------------------------------------------------------
MaxCalls == 2
MaxClock == 7
MaxRequests == 6
MaxConnections == 2
MaxThreads == 2
MaxRetries == 4

\* ------------------------------------------------------------------------
\* ApprovalDecision, ApprovalRequest
\* ------------------------------------------------------------------------
APPROVED == "approved"
REJECTED == "rejected"
TIMEOUT == "timeout"

ApprovalDecision == {APPROVED, REJECTED, TIMEOUT}

\* ApprovalRequest.__init__: a fresh request has no decision, approver or
\* decision time.  approved_at is <<>> for None and <<t>> for a time t.
ApprovalRequest(tool_name, arguments, risk_level) ==
    [tool_name |-> tool_name, arguments |-> arguments, risk_level |-> risk_level,
     timestamp |-> now, decision |-> None, approved_by |-> None, approved_at |-> <<>>]

\* ApprovalRequest.to_dict; isoformat() of a time t is [iso |-> t]
to_dict(req) ==
    [tool_name |-> req.tool_name,
     arguments |-> req.arguments,
     risk_level |-> req.risk_level,
     timestamp |-> [iso |-> req.timestamp],
     decision |-> IF req.decision # None THEN req.decision ELSE None,
     approved_by |-> req.approved_by,
     approved_at |-> IF req.approved_at # <<>> THEN <<[iso |-> req.approved_at[1]]>> ELSE <<>>]

approve(req, approver) ==
    [req EXCEPT !.decision = APPROVED, !.approved_by = approver, !.approved_at = <<now>>]

\* variant: reject does not record the decision time
reject_without_time(req, approver) ==
    [req EXCEPT !.decision = REJECTED, !.approved_by = approver]

reject(req, approver) ==
    [req EXCEPT !.decision = REJECTED, !.approved_by = approver, !.approved_at = <<now>>]

RECURSIVE remove(_, _)

\* variant: the head of the list is dropped, whatever x is
remove_head(list, x) == IF list = <<>> THEN <<>> ELSE Tail(list)

\* list.remove(x): drops the first element equal to x
remove(list, x) ==
    IF list = <<>> THEN <<>>
    ELSE IF Head(list) = x THEN Tail(list)
    ELSE <<Head(list)>> \o remove(Tail(list), x)

Range(list) == {list[i] : i \in 1..Len(list)}

Count(list, x) == Cardinality({i \in 1..Len(list) : list[i] = x})

\* ------------------------------------------------------------------------
\* The coroutine of one call of a gated entry point
\* ------------------------------------------------------------------------
NoResult == [returned |-> FALSE, success |-> FALSE, error |-> None, steps |-> <<>>]

IdleCall ==
    [op |-> None, args |-> <<>>, pc |-> "idle", request |-> 0, branch |-> None,
     timeout |-> 0, waited |-> 0, decision |-> None, executed |-> 0, created |-> 0,
     outcome |-> None, result |-> NoResult]

\* asyncio.sleep(0.5) on the auto-approve branch, asyncio.sleep(1) otherwise
SleepAuto == 5
SleepSimulated == 10

\* the timeouts the entry points pass to request_approval
TimeoutDeleteUser == 300
TimeoutTransfer == 300
TimeoutBuild == 300
TimeoutDeploy == 600

Callers == 1..MaxCalls

\* calls are numbered in the order in which they are made
CanStart(c) == calls[c].pc = "idle" /\ (IF c = 1 THEN TRUE ELSE calls[c - 1].pc # "idle")

\* ApprovalManager.create_request followed by request_approval up to its
\* await: the request is appended to pending_requests, the branch on
\* auto_approve_mode is taken and the coroutine suspends in asyncio.sleep.
create_and_request(c, tool_name, arguments, risk_level, timeout, callrec) ==
    /\ requests' = Append(requests, ApprovalRequest(tool_name, arguments, risk_level))
    /\ pending_requests' = Append(pending_requests, Len(requests) + 1)
    /\ now' = now + 1
    /\ calls' = [calls EXCEPT ![c] =
                    [callrec EXCEPT !.request = Len(requests) + 1,
                                    !.branch = IF auto_approve_mode THEN "auto" ELSE "simulated",
                                    !.timeout = timeout,
                                    !.waited = 0,
                                    !.created = callrec.created + 1]]
    /\ UNCHANGED <<history, auto_approve_mode>>

\* variant: the simulated user approves low risk only
decide_low_only(req, branch) ==
    IF branch = "auto" THEN approve(req, "demo_user")
    ELSE IF req.risk_level \in {"low"} THEN approve(req, "simulated_user")
    ELSE reject(req, "simulated_user")

\* request_approval after the sleep: the decision of the branch taken
decide(req, branch) ==
    IF branch = "auto" THEN approve(req, "demo_user")
    ELSE IF req.risk_level \in {"low", "medium"} THEN approve(req, "simulated_user")
    ELSE reject(req, "simulated_user")

sleep_of(branch) == IF branch = "auto" THEN SleepAuto ELSE SleepSimulated

\* variant: the request is put at the front of the history
request_approval_resume_prepends(c) ==
    LET r == calls[c].request IN
    /\ requests' = [requests EXCEPT ![r] = decide(requests[r], calls[c].branch)]
    /\ pending_requests' = remove(pending_requests, r)
    /\ history' = <<r>> \o history
    /\ now' = now + 1
    /\ UNCHANGED auto_approve_mode

\* variant: the request is not taken out of pending_requests
request_approval_resume_keeps_pending(c) ==
    LET r == calls[c].request IN
    /\ requests' = [requests EXCEPT ![r] = decide(requests[r], calls[c].branch)]
    /\ pending_requests' = pending_requests
    /\ history' = Append(history, r)
    /\ now' = now + 1
    /\ UNCHANGED auto_approve_mode

\* request_approval from the wake-up to its return: decide, move the request
\* from pending_requests to history, return request.decision.
request_approval_resume(c) ==
    LET r == calls[c].request IN
    /\ requests' = [requests EXCEPT ![r] = decide(requests[r], calls[c].branch)]
    /\ pending_requests' = remove(pending_requests, r)
    /\ history' = Append(history, r)
    /\ now' = now + 1
    /\ UNCHANGED auto_approve_mode

returned_decision(c) == decide(requests[calls[c].request], calls[c].branch).decision

Success(steps) == [returned |-> TRUE, success |-> TRUE, error |-> None, steps |-> steps]
Failure(kind, steps) == [returned |-> TRUE, success |-> FALSE, error |-> kind, steps |-> steps]

\* an exception of the gated function, which the entry point does not catch
Raised == [returned |-> FALSE, success |-> FALSE, error |-> "Exception", steps |-> <<>>]

\* ------------------------------------------------------------------------
\* approval_manager.auto_approve_mode = ...
\* ------------------------------------------------------------------------
SetAutoApproveMode(b) ==
    /\ auto_approve_mode # b
    /\ auto_approve_mode' = b
    /\ UNCHANGED <<requests, pending_requests, history, calls, now>>

\* ------------------------------------------------------------------------
\* delete_user_with_approval
\* ------------------------------------------------------------------------
UserIds == {"user_12345"}

CallDeleteUser(c, user_id) ==
    /\ CanStart(c)
    /\ create_and_request(c, "delete_user", [user_id |-> user_id], "high", TimeoutDeleteUser,
           [IdleCall EXCEPT !.op = "delete_user_with_approval",
                            !.args = [user_id |-> user_id],
                            !.pc = "await_approval"])

\* variant: delete_user runs whatever the decision is
ResumeDeleteUser_always_runs(c) ==
    /\ calls[c].op = "delete_user_with_approval"
    /\ calls[c].pc = "await_approval"
    /\ request_approval_resume(c)
    /\ LET decision == returned_decision(c) IN
       calls' = [calls EXCEPT ![c] =
                    [@ EXCEPT !.pc = "done",
                              !.waited = sleep_of(calls[c].branch),
                              !.decision = decision,
                              !.executed = @ + 1,
                              !.result = Success(<<>>)]]

ResumeDeleteUser(c) ==
    /\ calls[c].op = "delete_user_with_approval"
    /\ calls[c].pc = "await_approval"
    /\ request_approval_resume(c)
    /\ LET decision == returned_decision(c) IN
       calls' = [calls EXCEPT ![c] =
                    [@ EXCEPT !.pc = "done",
                              !.waited = sleep_of(calls[c].branch),
                              !.decision = decision,
                              !.executed = IF decision = APPROVED THEN @ + 1 ELSE @,
                              !.result = IF decision = APPROVED THEN Success(<<>>)
                                         ELSE Failure(decision, <<>>)]]

\* ------------------------------------------------------------------------
\* transfer_money_conditional
\* ------------------------------------------------------------------------
AmountInputs == {50, 100, 500, 1000, 5000}

\* variant: the high tier starts at 1000
transfer_risk_level_from_1000(amount) == IF amount >= 1000 THEN "high" ELSE "medium"

transfer_risk_level(amount) == IF amount > 1000 THEN "high" ELSE "medium"

CallTransferMoney(c, amount) ==
    /\ CanStart(c)
    /\ LET callrec == [IdleCall EXCEPT !.op = "transfer_money_conditional",
                                       !.args = [amount |-> amount]] IN
       IF ~(amount > 100)
       THEN \* no approval required: executed directly
            /\ calls' = [calls EXCEPT ![c] =
                            [callrec EXCEPT !.pc = "done", !.executed = 1,
                                            !.result = Success(<<>>)]]
            /\ UNCHANGED <<requests, pending_requests, history, auto_approve_mode, now>>
       ELSE create_and_request(c, "transfer_money", [amount |-> amount],
                transfer_risk_level(amount), TimeoutTransfer,
                [callrec EXCEPT !.pc = "await_approval"])

\* variant: a decision other than approved is raised as an exception
ResumeTransferMoney_raises(c) ==
    /\ calls[c].op = "transfer_money_conditional"
    /\ calls[c].pc = "await_approval"
    /\ request_approval_resume(c)
    /\ LET decision == returned_decision(c) IN
       calls' = [calls EXCEPT ![c] =
                    [@ EXCEPT !.pc = IF decision = APPROVED THEN "done" ELSE "raised",
                              !.waited = sleep_of(calls[c].branch),
                              !.decision = decision,
                              !.executed = IF decision = APPROVED THEN @ + 1 ELSE @,
                              !.result = IF decision = APPROVED THEN Success(<<>>)
                                         ELSE Raised]]

ResumeTransferMoney(c) ==
    /\ calls[c].op = "transfer_money_conditional"
    /\ calls[c].pc = "await_approval"
    /\ request_approval_resume(c)
    /\ LET decision == returned_decision(c) IN
       calls' = [calls EXCEPT ![c] =
                    [@ EXCEPT !.pc = "done",
                              !.waited = sleep_of(calls[c].branch),
                              !.decision = decision,
                              !.executed = IF decision = APPROVED THEN @ + 1 ELSE @,
                              !.result = IF decision = APPROVED THEN Success(<<>>)
                                         ELSE Failure(decision, <<>>)]]

\* ------------------------------------------------------------------------
\* require_approval(risk_level, timeout, condition) and its wrapper
\* ------------------------------------------------------------------------
\* large_file_condition: file_size_mb > 1024
large_file_condition(args) == args.arg0 > 1024

\* The decorations: the two of the source, and a third one that uses the
\* decorator with a low risk level and a timeout of 0.1 s.
Decorated ==
    { [func |-> "send_email_to_all_users", risk_level |-> "high", timeout |-> 300,
       condition |-> None],
      [func |-> "upload_file", risk_level |-> "medium", timeout |-> 200,
       condition |-> "large_file_condition"],
      [func |-> "quick_tool", risk_level |-> "low", timeout |-> 1,
       condition |-> None] }

FileSizeInputs == {500, 2048}

WrapperArgs(d) ==
    IF d.func = "upload_file" THEN {[arg0 |-> n] : n \in FileSizeInputs}
    ELSE {[arg0 |-> 0]}

\* variant: the condition is not consulted, every call is gated
condition_holds_ignored(d, args) == TRUE

condition_holds(d, args) ==
    IF d.condition = "large_file_condition" THEN large_file_condition(args) ELSE TRUE

CallWrapper(c, d, args) ==
    /\ CanStart(c)
    /\ LET callrec == [IdleCall EXCEPT !.op = d.func, !.args = args] IN
       IF d.condition # None /\ ~condition_holds(d, args)
       THEN \* condition not met: func runs without approval
            /\ calls' = [calls EXCEPT ![c] =
                            [callrec EXCEPT !.pc = "done", !.executed = 1,
                                            !.result = Success(<<>>)]]
            /\ UNCHANGED <<requests, pending_requests, history, auto_approve_mode, now>>
       ELSE create_and_request(c, d.func, args, d.risk_level, d.timeout,
                [callrec EXCEPT !.pc = "await_approval"])

\* what the decorated function does when it runs: the functions of the source
\* return their result, the third one may also raise
FuncOutcomes(func) == IF func = "quick_tool" THEN {"returns", "raises"} ELSE {"returns"}

ResumeWrapper(c) ==
    /\ calls[c].op \in {d.func : d \in Decorated}
    /\ calls[c].pc = "await_approval"
    /\ request_approval_resume(c)
    /\ LET decision == returned_decision(c) IN
       \E outcome \in FuncOutcomes(calls[c].op) :
       calls' = [calls EXCEPT ![c] =
                    [@ EXCEPT !.pc = IF decision = APPROVED /\ outcome = "raises"
                                     THEN "raised" ELSE "done",
                              !.waited = sleep_of(calls[c].branch),
                              !.decision = decision,
                              !.executed = IF decision = APPROVED THEN @ + 1 ELSE @,
                              !.outcome = IF decision = APPROVED THEN outcome ELSE @,
                              !.result = IF decision = APPROVED
                                         THEN (IF outcome = "raises" THEN Raised
                                               ELSE Success(<<>>))
                                         ELSE Failure(decision, <<>>)]]

\* ------------------------------------------------------------------------
\* deploy_to_production_workflow
\* ------------------------------------------------------------------------
CallDeploy(c) ==
    /\ CanStart(c)
    /\ create_and_request(c, "build_production", <<>>, "medium", TimeoutBuild,
           [IdleCall EXCEPT !.op = "deploy_to_production_workflow",
                            !.pc = "await_build",
                            !.result = [NoResult EXCEPT !.steps = <<"tests">>]])

ResumeDeployBuild(c) ==
    /\ calls[c].op = "deploy_to_production_workflow"
    /\ calls[c].pc = "await_build"
    /\ LET r == calls[c].request
           decision == returned_decision(c)
           waited == sleep_of(calls[c].branch)
           steps == calls[c].result.steps
       IN
       IF decision # APPROVED
       THEN /\ request_approval_resume(c)
            /\ calls' = [calls EXCEPT ![c] =
                            [@ EXCEPT !.pc = "done", !.waited = waited, !.decision = decision,
                                      !.result = Failure(decision, steps)]]
       ELSE \* build approved: the deploy request is created and awaited
            /\ requests' = Append([requests EXCEPT ![r] = decide(requests[r], calls[c].branch)],
                                  [ApprovalRequest("deploy_production", <<>>, "high")
                                      EXCEPT !.timestamp = now + 1])
            /\ pending_requests' = Append(remove(pending_requests, r), Len(requests) + 1)
            /\ history' = Append(history, r)
            /\ now' = now + 2
            /\ UNCHANGED auto_approve_mode
            /\ calls' = [calls EXCEPT ![c] =
                            [@ EXCEPT !.pc = "await_deploy",
                                      !.request = Len(requests) + 1,
                                      !.branch = IF auto_approve_mode THEN "auto" ELSE "simulated",
                                      !.timeout = TimeoutDeploy,
                                      !.waited = 0,
                                      !.decision = decision,
                                      !.executed = @ + 1,
                                      !.created = @ + 1,
                                      !.result = [@ EXCEPT !.steps = Append(steps, "build")]]]

\* variant: the workflow completes whatever the deploy decision is
ResumeDeployDeploy_ignores_decision(c) ==
    /\ calls[c].op = "deploy_to_production_workflow"
    /\ calls[c].pc = "await_deploy"
    /\ request_approval_resume(c)
    /\ LET decision == returned_decision(c)
           steps == calls[c].result.steps
       IN
       calls' = [calls EXCEPT ![c] =
                    [@ EXCEPT !.pc = "done",
                              !.waited = sleep_of(calls[c].branch),
                              !.decision = decision,
                              !.executed = @ + 1,
                              !.result = Success(steps \o <<"deploy", "notification">>)]]

ResumeDeployDeploy(c) ==
    /\ calls[c].op = "deploy_to_production_workflow"
    /\ calls[c].pc = "await_deploy"
    /\ request_approval_resume(c)
    /\ LET decision == returned_decision(c)
           steps == calls[c].result.steps
       IN
       calls' = [calls EXCEPT ![c] =
                    [@ EXCEPT !.pc = "done",
                              !.waited = sleep_of(calls[c].branch),
                              !.decision = decision,
                              !.executed = IF decision = APPROVED THEN @ + 1 ELSE @,
                              !.result = IF decision = APPROVED
                                         THEN Success(steps \o <<"deploy", "notification">>)
                                         ELSE Failure(decision, steps)]]

\* ------------------------------------------------------------------------
\* ApprovalRequest.approve / ApprovalRequest.reject called directly on a
\* request object (the decision signal of an approver)
\* ------------------------------------------------------------------------
Approvers == {"user"}

Approve(r, approver) ==
    /\ r \in 1..Len(requests)
    /\ now < MaxClock
    /\ requests' = [requests EXCEPT ![r] = approve(requests[r], approver)]
    /\ now' = now + 1
    /\ UNCHANGED <<pending_requests, history, auto_approve_mode, calls>>

Reject(r, approver) ==
    /\ r \in 1..Len(requests)
    /\ now < MaxClock
    /\ requests' = [requests EXCEPT ![r] = reject(requests[r], approver)]
    /\ now' = now + 1
    /\ UNCHANGED <<pending_requests, history, auto_approve_mode, calls>>

\* ========================================================================
\* Group chat selectors (020_group_chat_workflow.py)
\* ========================================================================
\* A str is a sequence of one-character strings.  An Optional[str] is <<>>
\* for None and <<s>> for the str s.
Some(s) == <<s>>

UpperCase ==
    ("A" :> "a") @@ ("B" :> "b") @@ ("C" :> "c") @@ ("D" :> "d") @@ ("E" :> "e") @@
    ("F" :> "f") @@ ("G" :> "g") @@ ("H" :> "h") @@ ("I" :> "i") @@ ("J" :> "j") @@
    ("K" :> "k") @@ ("L" :> "l") @@ ("M" :> "m") @@ ("N" :> "n") @@ ("O" :> "o") @@
    ("P" :> "p") @@ ("Q" :> "q") @@ ("R" :> "r") @@ ("S" :> "s") @@ ("T" :> "t") @@
    ("U" :> "u") @@ ("V" :> "v") @@ ("W" :> "w") @@ ("X" :> "x") @@ ("Y" :> "y") @@
    ("Z" :> "z")

\* str.lower()
lower(s) == [i \in 1..Len(s) |-> IF s[i] \in DOMAIN UpperCase THEN UpperCase[s[i]] ELSE s[i]]

\* " ".join(list)
RECURSIVE join(_)
join(list) ==
    IF list = <<>> THEN <<>>
    ELSE IF Len(list) = 1 THEN list[1]
    ELSE list[1] \o <<" ">> \o join(Tail(list))

\* kw in text
contains(text, kw) ==
    \E i \in 1..(Len(text) - Len(kw) + 1) : SubSeq(text, i, i + Len(kw) - 1) = kw

\* list[-n:]
\* variant: the first n elements instead of the last n
last_n_from_front(list, n) == IF Len(list) <= n THEN list ELSE SubSeq(list, 1, n)

last_n(list, n) == IF Len(list) <= n THEN list ELSE SubSeq(list, Len(list) - n + 1, Len(list))

\* list.index(x)
index(list, x) == CHOOSE i \in 1..Len(list) : list[i] = x /\ \A j \in 1..(i - 1) : list[j] # x

\* history[-1].speaker if history else None; a turn is modelled by its speaker
last_speaker_of(h) == IF h # <<>> THEN h[Len(h)] ELSE None

\* --- round_robin_selector ----------------------------------------------
RoundRobinLimit == 9

rotation == <<"researcher", "analyst", "writer">>

\* variant: the round limit is not tested on the opening turn
round_robin_selector_opening_unlimited(st) ==
    IF st.round_index >= RoundRobinLimit /\ st.history # <<>> THEN None
    ELSE LET last_speaker == last_speaker_of(st.history) IN
         IF last_speaker = None \/ last_speaker \notin Range(rotation)
         THEN rotation[1]
         ELSE LET current_index == index(rotation, last_speaker) - 1
                  next_index == (current_index + 1) % Len(rotation)
              IN rotation[next_index + 1]

\* variant: the round limit is tested with > instead of >=
round_robin_selector_late_stop(st) ==
    IF st.round_index > RoundRobinLimit THEN None
    ELSE LET last_speaker == last_speaker_of(st.history) IN
         IF last_speaker = None \/ last_speaker \notin Range(rotation)
         THEN rotation[1]
         ELSE LET current_index == index(rotation, last_speaker) - 1
                  next_index == (current_index + 1) % Len(rotation)
              IN rotation[next_index + 1]

\* variant: the rotation skips one participant
round_robin_selector_skips(st) ==
    IF st.round_index >= RoundRobinLimit THEN None
    ELSE LET last_speaker == last_speaker_of(st.history) IN
         IF last_speaker = None \/ last_speaker \notin Range(rotation)
         THEN rotation[1]
         ELSE LET current_index == index(rotation, last_speaker) - 1
                  next_index == (current_index + 2) % Len(rotation)
              IN rotation[next_index + 1]

round_robin_selector(st) ==
    IF st.round_index >= RoundRobinLimit THEN None
    ELSE LET last_speaker == last_speaker_of(st.history) IN
         IF last_speaker = None \/ last_speaker \notin Range(rotation)
         THEN rotation[1]
         ELSE LET current_index == index(rotation, last_speaker) - 1
                  next_index == (current_index + 1) % Len(rotation)
              IN rotation[next_index + 1]

\* --- debate_selector ----------------------------------------------------
DebateTurns == 3

\* variant: the default of the debate phase is the moderator
debate_selector_default_moderator(st) ==
    LET h == st.history
        optimist_count == Count(h, "optimist")
        pessimist_count == Count(h, "pessimist")
        moderator_count == Count(h, "moderator")
        last_speaker == last_speaker_of(h)
    IN
    IF optimist_count < DebateTurns \/ pessimist_count < DebateTurns
    THEN IF last_speaker = "optimist" /\ pessimist_count < DebateTurns THEN "pessimist"
         ELSE IF last_speaker = "pessimist" /\ optimist_count < DebateTurns THEN "optimist"
         ELSE "moderator"
    ELSE IF moderator_count = 0 THEN "moderator"
    ELSE None

\* variant: the moderator is selected whenever both debaters are done
debate_selector_moderator_again(st) ==
    LET h == st.history
        optimist_count == Count(h, "optimist")
        pessimist_count == Count(h, "pessimist")
        moderator_count == Count(h, "moderator")
        last_speaker == last_speaker_of(h)
    IN
    IF optimist_count < DebateTurns \/ pessimist_count < DebateTurns
    THEN IF last_speaker = "optimist" /\ pessimist_count < DebateTurns THEN "pessimist"
         ELSE IF last_speaker = "pessimist" /\ optimist_count < DebateTurns THEN "optimist"
         ELSE "optimist"
    ELSE IF moderator_count <= 1 THEN "moderator"
    ELSE None

debate_selector(st) ==
    LET h == st.history
        optimist_count == Count(h, "optimist")
        pessimist_count == Count(h, "pessimist")
        moderator_count == Count(h, "moderator")
        last_speaker == last_speaker_of(h)
    IN
    IF optimist_count < DebateTurns \/ pessimist_count < DebateTurns
    THEN IF last_speaker = "optimist" /\ pessimist_count < DebateTurns THEN "pessimist"
         ELSE IF last_speaker = "pessimist" /\ optimist_count < DebateTurns THEN "optimist"
         ELSE "optimist"
    ELSE IF moderator_count = 0 THEN "moderator"
    ELSE None

\* --- task_based_selector ------------------------------------------------
TaskRoundLimit == 10
SpecialistLimit == 2
RecentMessages == 3

kw_code == <<"c", "o", "d", "e">>
kw_programming == <<"p", "r", "o", "g", "r", "a", "m", "m", "i", "n", "g">>
kw_python == <<"p", "y", "t", "h", "o", "n">>
kw_data == <<"d", "a", "t", "a">>
kw_analysis == <<"a", "n", "a", "l", "y", "s", "i", "s">>
kw_analytics == <<"a", "n", "a", "l", "y", "t", "i", "c", "s">>
kw_design == <<"d", "e", "s", "i", "g", "n">>
kw_ui == <<"u", "i">>
kw_ux == <<"u", "x">>

specialists == {"code_specialist", "data_specialist", "design_specialist"}

\* msg.text.lower() for msg in conversation[-3:] if msg.text, joined by " "
RECURSIVE lowered_texts(_)
lowered_texts(msgs) ==
    IF msgs = <<>> THEN <<>>
    ELSE LET text == Head(msgs).text IN
         (IF text # <<>> /\ text[1] # <<>> THEN <<lower(text[1])>> ELSE <<>>)
            \o lowered_texts(Tail(msgs))

\* variant: the whole conversation is inspected, not its last three messages
recent_text_of_all(conversation) == join(lowered_texts(conversation))

recent_text_of(conversation) == join(lowered_texts(last_n(conversation, RecentMessages)))

\* variant: an unexpected last speaker hands the turn to the coordinator
task_based_selector_default_coordinator(st) ==
    LET h == st.history
        last_speaker == last_speaker_of(h)
        recent_text == recent_text_of(st.conversation)
    IN
    IF st.round_index >= TaskRoundLimit THEN None
    ELSE IF last_speaker = None THEN "coordinator"
    ELSE IF last_speaker = "coordinator"
    THEN IF contains(recent_text, kw_code) \/ contains(recent_text, kw_programming)
            \/ contains(recent_text, kw_python)
         THEN "code_specialist"
         ELSE IF contains(recent_text, kw_data) \/ contains(recent_text, kw_analysis)
                 \/ contains(recent_text, kw_analytics)
         THEN "data_specialist"
         ELSE IF contains(recent_text, kw_design) \/ contains(recent_text, kw_ui)
                 \/ contains(recent_text, kw_ux)
         THEN "design_specialist"
         ELSE "code_specialist"
    ELSE IF last_speaker \in specialists
    THEN LET specialist_count == Cardinality({i \in 1..Len(h) : h[i] \in specialists}) IN
         IF specialist_count >= SpecialistLimit THEN None ELSE "coordinator"
    ELSE "coordinator"

\* variant: the specialist count is tested with > instead of >=
task_based_selector_late_stop(st) ==
    LET h == st.history
        last_speaker == last_speaker_of(h)
        recent_text == recent_text_of(st.conversation)
    IN
    IF st.round_index >= TaskRoundLimit THEN None
    ELSE IF last_speaker = None THEN "coordinator"
    ELSE IF last_speaker = "coordinator"
    THEN IF contains(recent_text, kw_code) \/ contains(recent_text, kw_programming)
            \/ contains(recent_text, kw_python)
         THEN "code_specialist"
         ELSE IF contains(recent_text, kw_data) \/ contains(recent_text, kw_analysis)
                 \/ contains(recent_text, kw_analytics)
         THEN "data_specialist"
         ELSE IF contains(recent_text, kw_design) \/ contains(recent_text, kw_ui)
                 \/ contains(recent_text, kw_ux)
         THEN "design_specialist"
         ELSE "code_specialist"
    ELSE IF last_speaker \in specialists
    THEN LET specialist_count == Cardinality({i \in 1..Len(h) : h[i] \in specialists}) IN
         IF specialist_count > SpecialistLimit THEN None ELSE "coordinator"
    ELSE None

task_based_selector(st) ==
    LET h == st.history
        last_speaker == last_speaker_of(h)
        recent_text == recent_text_of(st.conversation)
    IN
    IF st.round_index >= TaskRoundLimit THEN None
    ELSE IF last_speaker = None THEN "coordinator"
    ELSE IF last_speaker = "coordinator"
    THEN IF contains(recent_text, kw_code) \/ contains(recent_text, kw_programming)
            \/ contains(recent_text, kw_python)
         THEN "code_specialist"
         ELSE IF contains(recent_text, kw_data) \/ contains(recent_text, kw_analysis)
                 \/ contains(recent_text, kw_analytics)
         THEN "data_specialist"
         ELSE IF contains(recent_text, kw_design) \/ contains(recent_text, kw_ui)
                 \/ contains(recent_text, kw_ux)
         THEN "design_specialist"
         ELSE "code_specialist"
    ELSE IF last_speaker \in specialists
    THEN LET specialist_count == Cardinality({i \in 1..Len(h) : h[i] \in specialists}) IN
         IF specialist_count >= SpecialistLimit THEN None ELSE "coordinator"
    ELSE None

\* ------------------------------------------------------------------------
\* AgentFrameworkChatManager and websocket_chat_endpoint
\* ------------------------------------------------------------------------
Users == {"ana", "luis"}
Connections == 1..MaxConnections

\* an endpoint coroutine: thread_id is the local variable of
\* send_to_assistant, response the last message sent on the socket
IdleEndpoint == [pc |-> "idle", user_id |-> None, thread_id |-> <<>>, response |-> None]

otherVarsOfManager == <<approvalVars, chatVars, auditVars, retryVars>>

\* the init message and chat_manager.connect: the socket becomes the user's
\* active connection, the thread of a known user is reported
Connect(k, user_id) ==
    /\ endpoints[k].pc \in {"idle", "closed"}
    /\ active_connections' = [active_connections EXCEPT ![user_id] = <<k>>]
    /\ endpoints' = [endpoints EXCEPT ![k] =
                        [pc |-> "ready", user_id |-> user_id, thread_id |-> <<>>,
                         response |-> IF user_threads[user_id] = <<>>
                                      THEN "session_ready_new"
                                      ELSE "session_ready_recovered"]]
    /\ UNCHANGED <<user_threads, threads_created, cleared>>
    /\ UNCHANGED otherVarsOfManager

\* WebSocketDisconnect in the message loop, then chat_manager.disconnect:
\* the entry of the user in active_connections is deleted, user_threads kept
Disconnect(k) ==
    /\ endpoints[k].pc = "ready"
    /\ active_connections' = [active_connections EXCEPT ![endpoints[k].user_id] = <<>>]
    /\ endpoints' = [endpoints EXCEPT ![k] = [IdleEndpoint EXCEPT !.pc = "closed"]]
    /\ UNCHANGED <<user_threads, threads_created, cleared>>
    /\ UNCHANGED otherVarsOfManager

\* a "message": send_to_assistant reads the user's thread id and suspends
\* in the calls of the agent service
StartSend(k) ==
    /\ endpoints[k].pc = "ready"
    /\ endpoints' = [endpoints EXCEPT ![k] =
                        [@ EXCEPT !.pc = "in_run",
                                  !.thread_id = user_threads[endpoints[k].user_id],
                                  !.response = "processing"]]
    /\ UNCHANGED <<user_threads, active_connections, threads_created, cleared>>
    /\ UNCHANGED otherVarsOfManager

\* send_to_assistant after agent.run: the service thread is the one asked
\* for, or a new one when none was; its id is stored if the user has no
\* entry in user_threads now.  An exception of the service gives None.
FinishSend(k, ok) ==
    LET user_id == endpoints[k].user_id
        thread_id == endpoints[k].thread_id
        service_thread_id == IF thread_id = <<>> THEN threads_created + 1 ELSE thread_id[1]
    IN
    /\ endpoints[k].pc = "in_run"
    /\ IF ok
       THEN /\ thread_id = <<>> => threads_created < MaxThreads
            /\ threads_created' = IF thread_id = <<>> THEN threads_created + 1
                                  ELSE threads_created
            /\ user_threads' = IF user_threads[user_id] = <<>>
                               THEN [user_threads EXCEPT ![user_id] = <<service_thread_id>>]
                               ELSE user_threads
            /\ endpoints' = [endpoints EXCEPT ![k] =
                                [@ EXCEPT !.pc = "ready", !.response = "bot_message"]]
       ELSE /\ endpoints' = [endpoints EXCEPT ![k] =
                                [@ EXCEPT !.pc = "ready", !.response = "error"]]
            /\ UNCHANGED <<user_threads, threads_created>>
    /\ UNCHANGED <<active_connections, cleared>>
    /\ UNCHANGED otherVarsOfManager

\* a "clear_session": cleanup_user_session deletes the user's entry and
\* returns True, or returns False when there is none
ClearSession(k) ==
    LET user_id == endpoints[k].user_id IN
    /\ endpoints[k].pc = "ready"
    /\ IF user_threads[user_id] = <<>>
       THEN /\ endpoints' = [endpoints EXCEPT ![k] = [@ EXCEPT !.response = "error"]]
            /\ UNCHANGED <<user_threads, cleared>>
       ELSE /\ user_threads' = [user_threads EXCEPT ![user_id] = <<>>]
            /\ cleared' = cleared \cup {<<user_id, user_threads[user_id][1]>>}
            /\ endpoints' = [endpoints EXCEPT ![k] = [@ EXCEPT !.response = "session_cleared"]]
    /\ UNCHANGED <<active_connections, threads_created>>
    /\ UNCHANGED otherVarsOfManager

\* ------------------------------------------------------------------------
\* retry_on_failure(max_retries, delay)
\* ------------------------------------------------------------------------
\* what one invocation of the wrapped function does
RetryOutcomes == {"returns_success", "returns_plain", "returns_success_false", "raises"}

\* isinstance(result, dict) and not result.get("success", True)
marked_failed(outcome) == outcome = "returns_success_false"

Failed(outcome) == marked_failed(outcome) \/ outcome = "raises"

NoRetryResult == [from |-> None, success |-> FALSE, retries |-> 0, error |-> None, value |-> None]

IdleRetry ==
    [pc |-> "idle", max_retries |-> 0, delay |-> 0, attempt |-> 0, outcomes |-> <<>>,
     slept |-> <<>>, last_exception |-> None, result |-> NoRetryResult]

\* the value of the wrapped function, returned as it is
func_result(outcome) ==
    [from |-> "func", success |-> TRUE, retries |-> 0, error |-> None, value |-> outcome]

\* the dict returned after the loop
retries_exhausted(max_retries, last_exception) ==
    [from |-> "wrapper", success |-> FALSE, retries |-> max_retries,
     error |-> last_exception, value |-> None]

\* the delays of the source: 0.5 s (unreliable_api_call) and the default 1 s
Delays == {5, 10}

otherVarsOfRetry == <<approvalVars, chatVars, auditVars, wsVars>>

\* a call of the wrapper: range(max_retries) is empty for 0
CallRetry(max_retries, delay) ==
    /\ retry.pc = "idle"
    /\ retry' = IF max_retries = 0
                THEN [IdleRetry EXCEPT !.pc = "returned", !.delay = delay,
                                       !.result = retries_exhausted(0, None)]
                ELSE [IdleRetry EXCEPT !.pc = "attempt", !.max_retries = max_retries,
                                       !.delay = delay]
    /\ UNCHANGED otherVarsOfRetry

\* variant: the exception of the last attempt is raised again
RetryAttempt_reraises(outcome) ==
    /\ retry.pc = "attempt"
    /\ retry' =
          IF ~Failed(outcome)
          THEN [retry EXCEPT !.pc = "returned",
                             !.outcomes = Append(@, outcome),
                             !.result = func_result(outcome)]
          ELSE IF retry.attempt < retry.max_retries - 1
          THEN [retry EXCEPT !.pc = "sleeping",
                             !.outcomes = Append(@, outcome),
                             !.last_exception = outcome,
                             !.slept = Append(@, retry.delay * (retry.attempt + 1))]
          ELSE [retry EXCEPT !.pc = "raised",
                             !.outcomes = Append(@, outcome),
                             !.last_exception = outcome]
    /\ UNCHANGED otherVarsOfRetry

\* one pass of the loop body: the function is invoked; a result not marked
\* as failed is returned; otherwise the wrapper sleeps delay * (attempt + 1)
\* before the next attempt, or leaves the loop after the last one
RetryAttempt(outcome) ==
    /\ retry.pc = "attempt"
    /\ retry' =
          IF ~Failed(outcome)
          THEN [retry EXCEPT !.pc = "returned",
                             !.outcomes = Append(@, outcome),
                             !.result = func_result(outcome)]
          ELSE IF retry.attempt < retry.max_retries - 1
          THEN [retry EXCEPT !.pc = "sleeping",
                             !.outcomes = Append(@, outcome),
                             !.last_exception = outcome,
                             !.slept = Append(@, retry.delay * (retry.attempt + 1))]
          ELSE [retry EXCEPT !.pc = "returned",
                             !.outcomes = Append(@, outcome),
                             !.last_exception = outcome,
                             !.result = retries_exhausted(retry.max_retries, outcome)]
    /\ UNCHANGED otherVarsOfRetry

\* the sleep is over: next value of range(max_retries)
RetryWake ==
    /\ retry.pc = "sleeping"
    /\ retry' = [retry EXCEPT !.pc = "attempt", !.attempt = @ + 1]
    /\ UNCHANGED otherVarsOfRetry

ApprovalInit ==
    /\ requests = <<>>
    /\ pending_requests = <<>>
    /\ history = <<>>
    /\ auto_approve_mode = TRUE
    /\ calls = [c \in Callers |-> IdleCall]
    /\ now = 0
    /\ returned = NoReturn

ChatIdle ==
    /\ selector = None
    /\ state = [history |-> <<>>, round_index |-> 0, conversation |-> <<>>]
    /\ selected = NotCalled

\* the chat manager after __init__, no socket accepted yet
ManagerInit ==
    /\ user_threads = [u \in Users |-> <<>>]
    /\ active_connections = [u \in Users |-> <<>>]
    /\ endpoints = [k \in Connections |-> IdleEndpoint]
    /\ threads_created = 0
    /\ cleared = {}

\* no call of a retrying wrapper yet
RetryIdle == retry = IdleRetry

Init == ApprovalInit /\ ChatIdle /\ ManagerInit /\ RetryIdle

Next ==
    \/ \E b \in BOOLEAN : SetAutoApproveMode(b) /\ UNCHANGED idleVars
    \/ \E c \in Callers, u \in UserIds : CallDeleteUser(c, u) /\ UNCHANGED idleVars
    \/ \E c \in Callers : ResumeDeleteUser(c) /\ UNCHANGED idleVars
    \/ \E c \in Callers, a \in AmountInputs : CallTransferMoney(c, a) /\ UNCHANGED idleVars
    \/ \E c \in Callers : ResumeTransferMoney(c) /\ UNCHANGED idleVars
    \/ \E c \in Callers, d \in Decorated : \E args \in WrapperArgs(d) :
          CallWrapper(c, d, args) /\ UNCHANGED idleVars
    \/ \E c \in Callers : ResumeWrapper(c) /\ UNCHANGED idleVars
    \/ \E c \in Callers : CallDeploy(c) /\ UNCHANGED idleVars
    \/ \E c \in Callers : ResumeDeployBuild(c) /\ UNCHANGED idleVars
    \/ \E c \in Callers : ResumeDeployDeploy(c) /\ UNCHANGED idleVars

\* The gated entry points, driven concurrently
Spec == Init /\ [][Next]_vars

NextAPI ==
    \/ Next
    \/ \E r \in 1..Len(requests), a \in Approvers : Approve(r, a) /\ UNCHANGED idleVars
    \/ \E r \in 1..Len(requests), a \in Approvers : Reject(r, a) /\ UNCHANGED idleVars

\* The entry points together with direct calls of approve() and reject()
SpecAPI == Init /\ [][NextAPI]_vars

\* ------------------------------------------------------------------------
\* ApprovalAuditor
\* ------------------------------------------------------------------------
\* the records of the history, in its order
history_records == [i \in 1..Len(history) |-> requests[history[i]]]

NoHistoryMessage == "No hay solicitudes en el historial"

\* f"{(approved / total * 100):.1f}%": the percentage rounded to one decimal,
\* kept as its number of tenths (no total below 16 gives a tie in the rounding)
\* variant: the percentage is cut to one decimal instead of rounded
percent_1f_truncated(approved, total) == [percent_tenths |-> (1000 * approved) \div total]

percent_1f(approved, total) == [percent_tenths |-> (2000 * approved + total) \div (2 * total)]

count_decision(h, d) == Cardinality({i \in 1..Len(h) : h[i].decision = d})

\* variant: a rejected record is not counted in the total of its level
by_risk_level_approved_only(h) ==
    [risk \in {h[i].risk_level : i \in 1..Len(h)} |->
        [total |-> Cardinality({i \in 1..Len(h) :
                                   h[i].risk_level = risk /\ h[i].decision = APPROVED}),
         approved |-> Cardinality({i \in 1..Len(h) :
                                      h[i].risk_level = risk /\ h[i].decision = APPROVED}),
         rejected |-> Cardinality({i \in 1..Len(h) :
                                      h[i].risk_level = risk /\ h[i].decision = REJECTED})]]

\* the dict by_risk of generate_report
by_risk_level(h) ==
    [risk \in {h[i].risk_level : i \in 1..Len(h)} |->
        [total |-> Cardinality({i \in 1..Len(h) : h[i].risk_level = risk}),
         approved |-> Cardinality({i \in 1..Len(h) :
                                      h[i].risk_level = risk /\ h[i].decision = APPROVED}),
         rejected |-> Cardinality({i \in 1..Len(h) :
                                      h[i].risk_level = risk /\ h[i].decision = REJECTED})]]

RecentRequests == 5

full_report(h) ==
    [total_requests |-> Len(h),
     approved |-> count_decision(h, APPROVED),
     rejected |-> count_decision(h, REJECTED),
     timeout |-> count_decision(h, TIMEOUT),
     approval_rate |-> percent_1f(count_decision(h, APPROVED), Len(h)),
     by_risk_level |-> by_risk_level(h),
     recent_requests |-> [i \in 1..Len(last_n(h, RecentRequests)) |->
                             to_dict(last_n(h, RecentRequests)[i])]]

\* variant: no early return for the empty history, the rate divides by zero
generate_report_unguarded(h) ==
    IF Len(h) = 0
    THEN [raised |-> "ZeroDivisionError", value |-> [nothing |-> TRUE]]
    ELSE [raised |-> None, value |-> full_report(h)]

\* ApprovalAuditor.generate_report on the history h
generate_report(h) ==
    IF h = <<>>
    THEN [raised |-> None,
          value |-> [total_requests |-> 0, message |-> NoHistoryMessage]]
    ELSE [raised |-> None, value |-> full_report(h)]

\* ApprovalManager.get_audit_log
get_audit_log == [i \in 1..Len(history) |-> to_dict(history_records[i])]

\* ApprovalAuditor.export_audit_log; json.dumps(x) is [json |-> x]
export_audit_log ==
    [json |-> [export_timestamp |-> [iso |-> now],
               total_requests |-> Len(history),
               requests |-> get_audit_log]]

\* variant: the report empties the history it has read
GenerateReport_clears ==
    /\ LET report == generate_report(history_records) IN
       returned' = [call |-> "generate_report", history_len |-> Len(history),
                    raised |-> report.raised, value |-> report.value]
    /\ history' = <<>>
    /\ UNCHANGED <<requests, pending_requests, auto_approve_mode, calls, now, chatVars,
                   extraVars>>

GenerateReport ==
    /\ LET report == generate_report(history_records) IN
       returned' = [call |-> "generate_report", history_len |-> Len(history),
                    raised |-> report.raised, value |-> report.value]
    /\ UNCHANGED <<approvalVars, chatVars, extraVars>>

\* the clock reading of the export is stored in no request
ExportAuditLog ==
    /\ returned' = [call |-> "export_audit_log", history_len |-> Len(history),
                    raised |-> None, value |-> export_audit_log]
    /\ UNCHANGED <<approvalVars, chatVars, extraVars>>

\* the default timeout of request_approval
TimeoutDefault == 300

AuditRisks == {"medium", "high"}

\* create_request followed by request_approval on the new request, one call
\* after the other as run_demo makes them
AuditCall(risk) ==
    /\ calls[1].pc \in {"idle", "done"}
    /\ Len(requests) < MaxRequests
    /\ create_and_request(1, "audited_tool", <<>>, risk, TimeoutDefault,
            [IdleCall EXCEPT !.op = "request_approval", !.pc = "await_approval"])
    /\ UNCHANGED <<chatVars, auditVars, extraVars>>

AuditResume ==
    /\ calls[1].op = "request_approval"
    /\ calls[1].pc = "await_approval"
    /\ request_approval_resume(1)
    /\ calls' = [calls EXCEPT ![1] =
                    [@ EXCEPT !.pc = "done",
                              !.waited = sleep_of(calls[1].branch),
                              !.decision = returned_decision(1)]]
    /\ UNCHANGED <<chatVars, auditVars, extraVars>>

NextAudit ==
    \/ \E b \in BOOLEAN : SetAutoApproveMode(b) /\ UNCHANGED idleVars
    \/ \E risk \in AuditRisks : AuditCall(risk)
    \/ AuditResume
    \/ GenerateReport
    \/ ExportAuditLog

\* The manager and its auditor: requests made one after the other, reports
\* and exports taken at any moment
SpecAudit == Init /\ [][NextAudit]_vars

\* ------------------------------------------------------------------------
\* Selector inputs
\* ------------------------------------------------------------------------
MaxHist == 4
MaxConv == 4
MaxRound == 10

Selectors == {"round_robin_selector", "debate_selector", "task_based_selector"}

select(sel, st) ==
    CASE sel = "round_robin_selector" -> round_robin_selector(st)
      [] sel = "debate_selector" -> debate_selector(st)
      [] sel = "task_based_selector" -> task_based_selector(st)

\* the participants of each group chat, and a speaker that is none of them
Speakers(sel) ==
    CASE sel = "round_robin_selector" -> {"researcher", "analyst", "writer", "user"}
      [] sel = "debate_selector" -> {"optimist", "pessimist", "moderator", "user"}
      [] sel = "task_based_selector" -> {"coordinator", "user"} \cup specialists

\* message texts: None, "Code", "data", "build" (which contains "ui")
Texts ==
    { <<>>,
      Some(<<"C", "o", "d", "e">>),
      Some(<<"d", "a", "t", "a">>),
      Some(<<"b", "u", "i", "l", "d">>) }

Messages == {[text |-> t] : t \in Texts}

SeqUpTo(S, n) == UNION {[1..k -> S] : k \in 0..n}

\* only task_based_selector reads the conversation
ConvInputs(sel) ==
    IF sel = "task_based_selector" THEN SeqUpTo(Messages, MaxConv) ELSE SeqUpTo(Messages, 1)

HistInputs(sel) ==
    IF sel = "task_based_selector" THEN SeqUpTo(Speakers(sel), MaxHist - 1)
    ELSE SeqUpTo(Speakers(sel), MaxHist)

\* One call of a selector on an arbitrary snapshot
SelectInit ==
    /\ ApprovalInit
    /\ ManagerInit
    /\ RetryIdle
    /\ selector \in Selectors
    /\ \E h \in HistInputs(selector), r \in 0..MaxRound, cv \in ConvInputs(selector) :
          state = [history |-> h, round_index |-> r, conversation |-> cv]
    /\ selected = NotCalled

Select ==
    /\ selected = NotCalled
    /\ selected' = select(selector, state)
    /\ UNCHANGED <<selector, state>>
    /\ UNCHANGED approvalVars
    /\ UNCHANGED <<auditVars, extraVars>>

SpecSelect == SelectInit /\ [][Select]_vars

\* The group chat loop: it calls the selector with the latest snapshot, the
\* selected participant takes its turn, the turn is appended to the history
\* and the conversation, and round_index is incremented; None ends the chat.
ReplyTexts(sel) ==
    IF sel = "task_based_selector" THEN Texts ELSE {Some(<<"h", "o", "l", "a">>)}

ChatInit ==
    /\ ApprovalInit
    /\ ManagerInit
    /\ RetryIdle
    /\ selector \in Selectors
    /\ \E task \in ReplyTexts(selector) :
          state = [history |-> <<>>, round_index |-> 0, conversation |-> <<[text |-> task]>>]
    /\ selected = NotCalled

Turn ==
    /\ selector \in Selectors
    /\ selected # None
    /\ LET next_speaker == select(selector, state) IN
       /\ selected' = next_speaker
       /\ IF next_speaker = None
          THEN state' = state
          ELSE \E reply \in ReplyTexts(selector) :
                  state' = [history |-> Append(state.history, next_speaker),
                            round_index |-> state.round_index + 1,
                            conversation |-> Append(state.conversation, [text |-> reply])]
    /\ UNCHANGED selector
    /\ UNCHANGED approvalVars
    /\ UNCHANGED <<auditVars, extraVars>>

SpecChat == ChatInit /\ [][Turn]_vars

\* The debate continued from an arbitrary history; round_index counts the
\* turns taken from there, and the loop goes on until the selector ends it.
DebateInit ==
    /\ ApprovalInit
    /\ ManagerInit
    /\ RetryIdle
    /\ selector = "debate_selector"
    /\ \E h \in HistInputs(selector), task \in ReplyTexts(selector) :
          state = [history |-> h, round_index |-> 0, conversation |-> <<[text |-> task]>>]
    /\ selected = NotCalled

SpecDebate == DebateInit /\ [][Turn]_vars /\ WF_vars(Turn)

NextWS ==
    \/ \E k \in Connections, u \in Users : Connect(k, u)
    \/ \E k \in Connections : Disconnect(k)
    \/ \E k \in Connections : StartSend(k)
    \/ \E k \in Connections, ok \in BOOLEAN : FinishSend(k, ok)
    \/ \E k \in Connections : ClearSession(k)

\* The chat manager serving up to MaxConnections sockets at once
SpecWS == Init /\ [][NextWS]_vars

NextRetry ==
    \/ \E m \in 0..MaxRetries, d \in Delays : CallRetry(m, d)
    \/ \E outcome \in RetryOutcomes : RetryAttempt(outcome)
    \/ RetryWake

\* One call of a function wrapped by retry_on_failure
SpecRetry == Init /\ [][NextRetry]_vars

\* ========================================================================
\* Properties
\* ========================================================================
DeleteCalls == {c \in Callers : calls[c].op = "delete_user_with_approval"}

\* C1: every call of delete_user_with_approval creates exactly one
\* ApprovalRequest; once the call has returned that request is exactly once
\* in the history and no longer pending; delete_user has run exactly once if
\* the returned decision is approved and not at all if it is rejected.
C1_DeleteUserGate ==
    /\ Cardinality({r \in 1..Len(requests) : requests[r].tool_name = "delete_user"})
          = Cardinality(DeleteCalls)
    /\ \A c \in DeleteCalls :
          /\ calls[c].created = 1
          /\ requests[calls[c].request].tool_name = "delete_user"
          /\ \A d \in DeleteCalls : d # c => calls[d].request # calls[c].request
          /\ calls[c].pc # "done" => calls[c].executed = 0
          /\ calls[c].pc = "done" =>
                /\ Count(history, calls[c].request) = 1
                /\ Count(pending_requests, calls[c].request) = 0
                /\ calls[c].decision = requests[calls[c].request].decision
                /\ calls[c].decision = APPROVED => calls[c].executed = 1
                /\ calls[c].decision = REJECTED => calls[c].executed = 0

\* two calls have returned, one approved with delete_user run once, one
\* rejected with delete_user never run
C1_Witness ==
    \E c \in DeleteCalls, d \in DeleteCalls :
        /\ calls[c].pc = "done" /\ calls[c].decision = APPROVED /\ calls[c].executed = 1
        /\ calls[d].pc = "done" /\ calls[d].decision = REJECTED /\ calls[d].executed = 0
        /\ Len(history) = 2

\* C2: a request_approval that has waited longer than its timeout without a
\* decision resolves to TIMEOUT: the call returns TIMEOUT, the gated
\* operation has not run and the recorded request carries TIMEOUT.
C2_TimeoutResolves ==
    \A c \in Callers :
        (calls[c].pc = "done" /\ calls[c].request # 0 /\ calls[c].waited > calls[c].timeout) =>
            /\ calls[c].decision = TIMEOUT
            /\ calls[c].executed = 0
            /\ requests[calls[c].request].decision = TIMEOUT

\* C3: once a request has a decision, no step changes its decision, its
\* approver or its decision time.
C3_DecidedOnce ==
    [][\A r \in 1..Len(requests) :
          requests[r].decision # None =>
             /\ requests'[r].decision = requests[r].decision
             /\ requests'[r].approved_by = requests[r].approved_by
             /\ requests'[r].approved_at = requests[r].approved_at]_vars

NineTurns == rotation \o rotation \o rotation

\* C4: driven from the empty history the round-robin chat produces
\* researcher, analyst, writer three times over and then None.
C4_RoundRobinNineTurns ==
    selector = "round_robin_selector" =>
        /\ state.round_index = Len(state.history)
        /\ Len(state.history) <= Len(NineTurns)
        /\ state.history = SubSeq(NineTurns, 1, Len(state.history))
        /\ selected = None => state.history = NineTurns

C4_Witness ==
    selector = "round_robin_selector" /\ selected = None /\ state.history = NineTurns

successor == [researcher |-> "analyst", analyst |-> "writer", writer |-> "researcher"]

\* C5: on a snapshot with round_index < 9 round_robin_selector returns the
\* cyclic successor of the last speaker when that speaker is in the rotation,
\* the first participant otherwise, and never None.
C5_RoundRobinSuccessor ==
    (selector = "round_robin_selector" /\ selected # NotCalled /\ state.round_index < 9) =>
        /\ selected # None
        /\ LET h == state.history IN
           IF h # <<>> /\ h[Len(h)] \in DOMAIN successor
           THEN selected = successor[h[Len(h)]]
           ELSE selected = "researcher"

\* the wrap-around from writer to researcher in the last round before the limit
C5_Witness ==
    /\ selector = "round_robin_selector"
    /\ state.round_index = 8
    /\ Len(state.history) = 4
    /\ state.history[4] = "writer"
    /\ selected = "researcher"

SevenTurns == <<"optimist", "pessimist", "optimist", "pessimist", "optimist", "pessimist",
                "moderator">>

\* C6: driven from the empty history the debate produces optimist and
\* pessimist alternating three times each, then the moderator once, then None.
C6_DebateSevenTurns ==
    selector = "debate_selector" =>
        /\ Len(state.history) <= Len(SevenTurns)
        /\ state.history = SubSeq(SevenTurns, 1, Len(state.history))
        /\ selected = None => state.history = SevenTurns

C6_Witness ==
    selector = "debate_selector" /\ selected = None /\ state.history = SevenTurns

\* C7: debate_selector never returns a debater who already has 3 turns in
\* the history it was given.
C7_DebaterCap ==
    (selector = "debate_selector" /\ selected \in {"optimist", "pessimist"}) =>
        Count(state.history, selected) < 3

SpecialistTurns(h) == Cardinality({i \in 1..Len(h) : h[i] \in specialists})

\* C8: task_based_selector returns None on every history with 2 specialist
\* turns, whoever spoke last.
C8_SpecialistCapEnds ==
    (selector = "task_based_selector" /\ selected # NotCalled
        /\ SpecialistTurns(state.history) >= 2) =>
        selected = None

\* C9: driven from the empty history the task-based chat alternates
\* coordinator and specialist starting with the coordinator, has at most 2
\* specialist turns and ends right after the second one.
C9_TaskAlternation ==
    selector = "task_based_selector" =>
        /\ \A i \in 1..Len(state.history) :
              IF i % 2 = 1 THEN state.history[i] = "coordinator"
              ELSE state.history[i] \in specialists
        /\ SpecialistTurns(state.history) <= 2
        /\ Len(state.history) <= 4
        /\ selected = None => (Len(state.history) = 4 /\ SpecialistTurns(state.history) = 2)

C9_Witness ==
    /\ selector = "task_based_selector"
    /\ selected = None
    /\ Len(state.history) = 4
    /\ state.history[2] # state.history[4]

\* a keyword occurs in one of the last three messages that have a text
Hit(kw) ==
    \E i \in 1..Len(state.conversation) :
        /\ i > Len(state.conversation) - 3
        /\ state.conversation[i].text # <<>>
        /\ contains(lower(state.conversation[i].text[1]), kw)

CodeHit == Hit(kw_code) \/ Hit(kw_programming) \/ Hit(kw_python)
DataHit == Hit(kw_data) \/ Hit(kw_analysis) \/ Hit(kw_analytics)
DesignHit == Hit(kw_design) \/ Hit(kw_ui) \/ Hit(kw_ux)

\* C10: after the coordinator (round_index < 10) the specialist is chosen by
\* priority over the last three messages: code, then data, then design, and
\* code_specialist when no keyword occurs.
C10_KeywordPriority ==
    (selector = "task_based_selector" /\ selected # NotCalled
        /\ state.round_index < 10
        /\ last_speaker_of(state.history) = "coordinator") =>
        selected = IF CodeHit THEN "code_specialist"
                   ELSE IF DataHit THEN "data_specialist"
                   ELSE IF DesignHit THEN "design_specialist"
                   ELSE "code_specialist"

\* "Code" lies outside the last three messages, which match data and design
C10_Witness ==
    /\ selector = "task_based_selector"
    /\ last_speaker_of(state.history) = "coordinator"
    /\ state.round_index < 10
    /\ Len(state.conversation) = 4
    /\ state.conversation[1].text = Some(<<"C", "o", "d", "e">>)
    /\ ~CodeHit /\ DataHit /\ DesignHit
    /\ selected = "data_specialist"

\* C11: round_robin_selector returns None on every snapshot with
\* round_index >= 9 and task_based_selector on every snapshot with
\* round_index >= 10, whatever the history and the conversation hold.
C11_RoundLimit ==
    selected # NotCalled =>
        /\ (selector = "round_robin_selector" /\ state.round_index >= 9) => selected = None
        /\ (selector = "task_based_selector" /\ state.round_index >= 10) => selected = None

\* at the limit after the coordinator, with a code keyword in the conversation
C11_Witness ==
    /\ selector = "task_based_selector"
    /\ state.round_index = 10
    /\ last_speaker_of(state.history) = "coordinator"
    /\ state.conversation # <<>>
    /\ CodeHit
    /\ selected = None

\* the participants a selector recognizes
Participants(sel) == Speakers(sel) \ {"user"}

UnknownLastSpeaker ==
    /\ selected # NotCalled
    /\ state.history # <<>>
    /\ last_speaker_of(state.history) \notin Participants(selector)

\* C12 as stated: each selector returns None when the last speaker of the
\* history is not one of its participants.
C12_UnknownSpeakerEnds ==
    UnknownLastSpeaker => selected = None

\* C12 as amended: on such a history task_based_selector returns None;
\* round_robin_selector restarts the rotation with researcher (None only at
\* the round limit); debate_selector returns optimist while a debater has
\* fewer than 3 turns, then moderator if it has not spoken, then None.
C12_UnknownSpeaker ==
    UnknownLastSpeaker =>
        /\ selector = "task_based_selector" => selected = None
        /\ selector = "round_robin_selector" =>
              selected = IF state.round_index >= 9 THEN None ELSE "researcher"
        /\ selector = "debate_selector" =>
              selected = IF Count(state.history, "optimist") < 3
                            \/ Count(state.history, "pessimist") < 3 THEN "optimist"
                         ELSE IF Count(state.history, "moderator") = 0 THEN "moderator"
                         ELSE None

\* a foreign speaker after the coordinator and one specialist, below the limit
C12_Witness ==
    /\ selector = "task_based_selector"
    /\ state.round_index < 10
    /\ Len(state.history) = 3
    /\ state.history[1] = "coordinator"
    /\ state.history[2] \in specialists
    /\ state.history[3] = "user"
    /\ selected = None

TransferCalls == {c \in Callers : calls[c].op = "transfer_money_conditional"}

\* C13: transfer_money_conditional with amount <= 100 creates no request,
\* leaves pending_requests and history unchanged and returns success in the
\* same step; with amount > 100 it creates exactly one request, of risk level
\* medium up to 1000 and high above.
C13_TransferTiers ==
    /\ [](/\ Cardinality({r \in 1..Len(requests) : requests[r].tool_name = "transfer_money"})
               = Cardinality({c \in TransferCalls : calls[c].args.amount > 100})
          /\ \A c \in TransferCalls :
                IF calls[c].args.amount <= 100
                THEN /\ calls[c].created = 0 /\ calls[c].request = 0
                     /\ calls[c].pc = "done"
                     /\ calls[c].result.returned /\ calls[c].result.success
                ELSE /\ calls[c].created = 1
                     /\ requests[calls[c].request].tool_name = "transfer_money"
                     /\ requests[calls[c].request].risk_level =
                           IF calls[c].args.amount <= 1000 THEN "medium" ELSE "high")
    /\ [][\A c \in Callers :
             (calls[c].pc = "idle" /\ calls'[c].op = "transfer_money_conditional"
                 /\ calls'[c].args.amount <= 100) =>
                /\ requests' = requests
                /\ pending_requests' = pending_requests
                /\ history' = history]_vars

\* the two boundary amounts: 100 ran without a request, 1000 waits with a
\* medium request
C13_Witness ==
    \E c \in TransferCalls, d \in TransferCalls :
        /\ calls[c].args.amount = 100 /\ calls[c].pc = "done" /\ calls[c].created = 0
        /\ calls[d].args.amount = 1000 /\ calls[d].created = 1
        /\ requests[calls[d].request].risk_level = "medium"
        /\ Len(requests) = 1

\* C14: no request is both pending and recorded, a pending request has no
\* decision, a recorded request has a decision, and the step that decides a
\* request takes it out of pending_requests and appends it to history.
C14_PendingOrRecorded ==
    /\ [](/\ Range(pending_requests) \cap Range(history) = {}
          /\ \A r \in Range(pending_requests) : requests[r].decision = None
          /\ \A r \in Range(history) : requests[r].decision \in ApprovalDecision)
    /\ [][\A r \in 1..Len(requests) :
             (requests[r].decision = None /\ requests'[r].decision # None) =>
                /\ r \in Range(pending_requests) /\ r \notin Range(pending_requests')
                /\ r \notin Range(history) /\ r \in Range(history')]_vars

\* one request still pending beside one recorded as rejected
C14_Witness ==
    /\ Len(pending_requests) = 1
    /\ Len(history) = 1
    /\ requests[history[1]].decision = REJECTED
    /\ requests[pending_requests[1]].decision = None

\* C15: a request has an approver and a decision time exactly when it has a
\* decision.
C15_DecisionFieldsTogether ==
    \A r \in 1..Len(requests) :
        \/ /\ requests[r].decision = None
           /\ requests[r].approved_by = None
           /\ requests[r].approved_at = <<>>
        \/ /\ requests[r].decision \in ApprovalDecision
           /\ requests[r].approved_by # None
           /\ requests[r].approved_at # <<>>

C15_Witness ==
    \E r \in 1..Len(requests), q \in 1..Len(requests) :
        /\ requests[r].decision = REJECTED
        /\ requests[r].approved_by = "simulated_user"
        /\ requests[r].approved_at # <<>>
        /\ requests[q].decision = None

AuditView(req) ==
    [f \in {"tool_name", "arguments", "risk_level", "decision", "approved_by"} |-> to_dict(req)[f]]

\* C18: a failure of the approved operation reaches the caller as
\* an error and the audit record of its request differs from the record of an
\* approved request whose operation succeeded.
C18_FailureAudited ==
    \A c \in Callers :
        calls[c].outcome = "raises" =>
            /\ calls[c].pc = "raised"
            /\ ~calls[c].result.returned
            /\ \A d \in Callers :
                  (calls[d].outcome = "returns" /\ calls[d].request # 0) =>
                     AuditView(requests[calls[c].request])
                        # AuditView(requests[calls[d].request])

InFlight(c) == calls[c].pc \in {"await_approval", "await_build", "await_deploy"}

\* C19: with calls interleaved at their wait every request is exactly once in
\* pending_requests or in history, in history exactly when it has a decision;
\* the request of a waiting call is still pending and that of a returned call
\* is recorded; the history is in the order of the decisions; with no call
\* waiting pending_requests is empty.
C19_ConcurrentMoves ==
    /\ \A r \in 1..Len(requests) :
          /\ Count(pending_requests, r) + Count(history, r) = 1
          /\ Count(history, r) = 1 <=> requests[r].decision # None
    /\ \A c \in Callers :
          /\ InFlight(c) => Count(pending_requests, calls[c].request) = 1
          /\ (~InFlight(c) /\ calls[c].request # 0) => Count(history, calls[c].request) = 1
    /\ \A i \in 1..Len(history), j \in 1..Len(history) :
          i < j => requests[history[i]].approved_at[1] < requests[history[j]].approved_at[1]
    /\ (\A c \in Callers : ~InFlight(c)) => pending_requests = <<>>

\* two calls waited at once and were decided in the reverse order
C19_Witness ==
    /\ Len(requests) = 2
    /\ history = <<2, 1>>
    /\ pending_requests = <<>>
    /\ requests[2].timestamp < requests[2].approved_at[1]
    /\ requests[2].approved_at[1] < requests[1].approved_at[1]
    /\ \A c \in Callers : calls[c].pc = "done"

\* C16: the history before a step is a prefix of the history after it, and
\* the records already in it are not changed.
C16_AppendOnly ==
    [][/\ Len(history) <= Len(history')
       /\ history = SubSeq(history', 1, Len(history))
       /\ \A i \in 1..Len(history) : requests'[history[i]] = requests[history[i]]]_vars

\* a report taken when the history had one record, and two records appended
\* after it while another request waits
C16_Witness ==
    /\ returned.call = "generate_report"
    /\ returned.history_len = 1
    /\ returned.value.total_requests = 1
    /\ Len(history) = 3
    /\ Len(pending_requests) = 1

EmptyReport == returned.call = "generate_report" /\ returned.history_len = 0

\* C20 as stated: generate_report on the empty history does not fail and
\* returns total 0 with an approval_rate of 0.
C20_EmptyReportRateZero ==
    EmptyReport =>
        /\ returned.raised = None
        /\ returned.value.total_requests = 0
        /\ "approval_rate" \in DOMAIN returned.value
        /\ returned.value.approval_rate = percent_1f(0, 1)

\* C20 as amended: generate_report on the empty history does not fail and
\* returns total_requests 0 with a message, and no approval_rate at all.
C20_EmptyReportMessage ==
    EmptyReport =>
        /\ returned.raised = None
        /\ returned.value = [total_requests |-> 0, message |-> NoHistoryMessage]
        /\ "approval_rate" \notin DOMAIN returned.value

\* the report of the empty history, still held after a first request resolved
C20_Witness ==
    /\ EmptyReport
    /\ returned.raised = None
    /\ returned.value.total_requests = 0
    /\ Len(history) = 1

\* the history as it was when the report now held was produced
reported_history == SubSeq(history_records, 1, returned.history_len)

FullReport == returned.call = "generate_report" /\ returned.history_len > 0

\* C21: while no approval has resolved since the report now held was
\* produced, generate_report returns that same report again; and a step that
\* produces a report leaves requests, pending_requests and history unchanged.
C21_ReportIdempotent ==
    /\ []((returned.call = "generate_report" /\ returned.history_len = Len(history)) =>
             generate_report(history_records).value = returned.value)
    /\ [][(returned'.call = "generate_report" /\ returned' # returned) =>
             /\ requests' = requests
             /\ pending_requests' = pending_requests
             /\ history' = history]_vars

\* a report of two records is held, a third request waits for its decision
C21_Witness ==
    /\ FullReport
    /\ returned.history_len = 2
    /\ Len(history) = 2
    /\ Len(pending_requests) = 1
    /\ calls[1].pc = "await_approval"

\* C22: in a report of a non-empty history total_requests is the length of
\* the history, approved, rejected and timeout count the records of that
\* decision and add up to total_requests, and approval_rate is
\* approved / total_requests as a percentage rounded to one decimal.
C22_ReportCounts ==
    FullReport =>
        LET v == returned.value
            h == reported_history IN
        /\ v.total_requests = Len(h)
        /\ v.approved = Cardinality({i \in 1..Len(h) : h[i].decision = APPROVED})
        /\ v.rejected = Cardinality({i \in 1..Len(h) : h[i].decision = REJECTED})
        /\ v.timeout = Cardinality({i \in 1..Len(h) : h[i].decision = TIMEOUT})
        /\ v.total_requests = v.approved + v.rejected + v.timeout
        /\ 2 * (v.approval_rate.percent_tenths * v.total_requests - 1000 * v.approved)
              <= v.total_requests
        /\ 2 * (1000 * v.approved - v.approval_rate.percent_tenths * v.total_requests)
              <= v.total_requests

\* two of three records approved: 66.7%
C22_Witness ==
    /\ FullReport
    /\ returned.value.total_requests = 3
    /\ returned.value.approved = 2
    /\ returned.value.rejected = 1
    /\ returned.value.approval_rate.percent_tenths = 667

Min(a, b) == IF a <= b THEN a ELSE b

\* C23: recent_requests of a report holds the last 5 records of the history
\* in the order of the history, and all of them when there are fewer than 5.
C23_RecentFive ==
    FullReport =>
        LET rr == returned.value.recent_requests
            h == reported_history
            n == Min(5, Len(h)) IN
        /\ Len(rr) = n
        /\ \A i \in 1..n : rr[i] = to_dict(h[Len(h) - n + i])

\* a report of six records: the first one is left out
C23_Witness ==
    /\ FullReport
    /\ returned.history_len = 6
    /\ Len(returned.value.recent_requests) = 5
    /\ returned.value.recent_requests[1] = to_dict(requests[history[2]])
    /\ returned.value.recent_requests[5] = to_dict(requests[history[6]])

RECURSIVE SumTotals(_, _)
SumTotals(by_risk, levels) ==
    IF levels = {} THEN 0
    ELSE LET risk == CHOOSE x \in levels : TRUE IN
         by_risk[risk].total + SumTotals(by_risk, levels \ {risk})

\* C28: in a report the totals of the risk levels add up to total_requests,
\* and the total of each level is its approved count plus its rejected count.
C28_BreakdownConsistent ==
    FullReport =>
        LET v == returned.value IN
        /\ SumTotals(v.by_risk_level, DOMAIN v.by_risk_level) = v.total_requests
        /\ \A risk \in DOMAIN v.by_risk_level :
              v.by_risk_level[risk].total
                 = v.by_risk_level[risk].approved + v.by_risk_level[risk].rejected

\* both levels present, a rejection among the high-risk records
C28_Witness ==
    /\ FullReport
    /\ DOMAIN returned.value.by_risk_level = {"medium", "high"}
    /\ returned.value.by_risk_level["high"].rejected = 1
    /\ returned.value.by_risk_level["high"].approved = 1
    /\ returned.value.by_risk_level["medium"].total = 2

WrapperCalls == {c \in Callers : calls[c].op \in {d.func : d \in Decorated}}

decoration(c) == CHOOSE d \in Decorated : d.func = calls[c].op

\* the call is one on which the decorator asks for approval
Gated(c) ==
    \/ decoration(c).condition = None
    \/ decoration(c).condition = "large_file_condition" /\ calls[c].args.arg0 > 1024

\* C24: a decorated function is gated on every call without a condition and
\* on the calls whose condition is true; an ungated call runs the function
\* once and leaves requests, pending_requests and history unchanged; a gated
\* call creates one request and runs the function once if it was approved
\* and not at all otherwise.
C24_WrapperGating ==
    /\ [](\A c \in WrapperCalls :
            /\ calls[c].executed <= 1
            /\ IF Gated(c)
               THEN /\ calls[c].created = 1
                    /\ requests[calls[c].request].tool_name = calls[c].op
                    /\ calls[c].pc = "await_approval" => calls[c].executed = 0
                    /\ calls[c].pc # "await_approval" =>
                          calls[c].executed = IF calls[c].decision = APPROVED THEN 1 ELSE 0
               ELSE /\ calls[c].created = 0
                    /\ calls[c].request = 0
                    /\ calls[c].pc = "done"
                    /\ calls[c].executed = 1)
    /\ [][\A c \in Callers :
             (calls[c].pc = "idle" /\ calls'[c].op = "upload_file"
                 /\ calls'[c].args.arg0 <= 1024) =>
                /\ requests' = requests
                /\ pending_requests' = pending_requests
                /\ history' = history]_vars

\* a small upload ran without a request beside a refused mass mail
C24_Witness ==
    \E c \in WrapperCalls, d \in WrapperCalls :
        /\ calls[c].op = "upload_file" /\ calls[c].args.arg0 = 500
        /\ calls[c].executed = 1 /\ calls[c].created = 0
        /\ calls[d].op = "send_email_to_all_users"
        /\ calls[d].decision = REJECTED /\ calls[d].executed = 0
        /\ Len(history) = 1

DeployCalls == {c \in Callers : calls[c].op = "deploy_to_production_workflow"}

\* the build request of the workflow that created the deploy request r: the
\* deploy request is created as soon as the build decision is returned
BuildOf(r) ==
    {b \in 1..Len(requests) : /\ requests[b].tool_name = "build_production"
                              /\ requests[b].approved_at = <<requests[r].timestamp - 1>>}

position(list, x) == CHOOSE i \in 1..Len(list) : list[i] = x

\* C25: the workflow requests the build approval first; a deploy_production
\* request exists only for a workflow whose build was approved; a workflow
\* refused at a step returns failure with the steps completed before it;
\* it returns success, with the notification step, only when both requests
\* were approved, and its build record precedes its deploy record.
C25_DeployOrder ==
    /\ Cardinality({r \in 1..Len(requests) : requests[r].tool_name = "deploy_production"})
          = Cardinality({c \in DeployCalls : calls[c].created = 2})
    /\ \A r \in 1..Len(requests) :
          requests[r].tool_name = "deploy_production" =>
             /\ Cardinality(BuildOf(r)) = 1
             /\ \A b \in BuildOf(r) :
                   /\ b < r
                   /\ requests[b].decision = APPROVED
                   /\ Count(history, b) = 1
                   /\ Count(history, r) = 1 => position(history, b) < position(history, r)
    /\ \A c \in DeployCalls :
          /\ calls[c].pc = "await_build" =>
                /\ calls[c].created = 1
                /\ requests[calls[c].request].tool_name = "build_production"
                /\ calls[c].result.steps = <<"tests">>
          /\ calls[c].pc = "await_deploy" =>
                /\ calls[c].created = 2
                /\ requests[calls[c].request].tool_name = "deploy_production"
                /\ calls[c].result.steps = <<"tests", "build">>
          /\ (calls[c].pc = "done" /\ calls[c].created = 1) =>
                /\ requests[calls[c].request].decision # APPROVED
                /\ ~calls[c].result.success
                /\ calls[c].result.steps = <<"tests">>
          /\ (calls[c].pc = "done" /\ calls[c].created = 2) =>
                /\ calls[c].result.success
                      <=> requests[calls[c].request].decision = APPROVED
                /\ calls[c].result.steps =
                      IF requests[calls[c].request].decision = APPROVED
                      THEN <<"tests", "build", "deploy", "notification">>
                      ELSE <<"tests", "build">>

\* two workflows: one completed, one refused at the deploy step
C25_Witness ==
    \E c \in DeployCalls, d \in DeployCalls :
        /\ calls[c].pc = "done" /\ calls[c].result.success
        /\ calls[c].result.steps = <<"tests", "build", "deploy", "notification">>
        /\ calls[d].pc = "done" /\ ~calls[d].result.success
        /\ calls[d].result.steps = <<"tests", "build">>
        /\ Len(history) = 4

\* the request the call c has got a decision for, if any
Decided(c) == calls[c].request # 0 /\ requests[calls[c].request].decision # None

\* C26: a call that found auto_approve_mode on has its request approved by
\* demo_user; a call that found it off has its request approved by
\* simulated_user when the risk level is low or medium and rejected by
\* simulated_user otherwise; delete_user does not run in a call that found
\* the mode off.
C26_FixedPolicy ==
    /\ [](/\ \A c \in Callers :
                Decided(c) =>
                   LET req == requests[calls[c].request] IN
                   IF calls[c].branch = "auto"
                   THEN req.decision = APPROVED /\ req.approved_by = "demo_user"
                   ELSE /\ req.approved_by = "simulated_user"
                        /\ req.decision = IF req.risk_level \in {"low", "medium"}
                                          THEN APPROVED ELSE REJECTED
          /\ \A c \in DeleteCalls :
                calls[c].branch = "simulated" =>
                   /\ calls[c].executed = 0
                   /\ calls[c].pc = "done" => calls[c].decision = REJECTED)
    /\ [][\A c \in Callers :
             (calls'[c].request # calls[c].request) =>
                calls'[c].branch = IF auto_approve_mode THEN "auto" ELSE "simulated"]_vars

\* a delete_user refused by the simulated user beside a high-risk request
\* approved by demo_user
C26_Witness ==
    \E c \in DeleteCalls, d \in Callers :
        /\ calls[c].branch = "simulated" /\ calls[c].pc = "done"
        /\ calls[c].decision = REJECTED /\ calls[c].executed = 0
        /\ calls[d].branch = "auto" /\ Decided(d)
        /\ requests[calls[d].request].risk_level = "high"
        /\ requests[calls[d].request].approved_by = "demo_user"

\* C27: continued from any history the debate takes at most 7 further turns
\* and then the selector returns None.
C27_DebateTerminates ==
    /\ [](state.round_index <= 7)
    /\ <>(selected = None)

\* the longest continuation: the optimist had its three turns, the pessimist
\* none, and an unknown speaker was last
C27_Witness ==
    /\ selected = None
    /\ state.round_index = 7
    /\ Count(state.history, "optimist") = 6
    /\ Count(state.history, "user") = 1
    /\ Len(state.history) = 11

\* C29: a disconnection leaves user_threads unchanged, and a user whose
\* session was cleared is never mapped to the cleared thread again.
C29_ClearedForGood ==
    /\ [](\A p \in cleared : user_threads[p[1]] # <<p[2]>>)
    /\ [][\A k \in Connections :
             (endpoints[k].pc = "ready" /\ endpoints'[k].pc = "closed") =>
                user_threads' = user_threads]_vars

\* C30: the wrapped function is invoked at most max_retries times, and no
\* more after an attempt whose result is not marked as failed, which is
\* returned as it is; when every attempt failed the wrapper returns the
\* failure dict with retries = max_retries; the wrapper never raises; it
\* sleeps delay * i after the i-th failed attempt, except after the last one.
C30_RetryBound ==
    LET n == Len(retry.outcomes) IN
    /\ retry.pc \in {"idle", "attempt", "sleeping", "returned"}
    /\ n <= retry.max_retries
    /\ \A i \in 1..(n - 1) : retry.outcomes[i] \in {"returns_success_false", "raises"}
    /\ retry.pc = "attempt" => n = retry.attempt /\ Len(retry.slept) = n
    /\ retry.pc = "sleeping" => n = retry.attempt + 1 /\ Len(retry.slept) = n
                                   /\ n < retry.max_retries
    /\ \A i \in 1..Len(retry.slept) : retry.slept[i] = retry.delay * i
    /\ retry.pc = "returned" =>
          IF n > 0 /\ retry.outcomes[n] \in {"returns_success", "returns_plain"}
          THEN /\ retry.result = func_result(retry.outcomes[n])
               /\ Len(retry.slept) = n - 1
          ELSE /\ n = retry.max_retries
               /\ retry.result.from = "wrapper"
               /\ ~retry.result.success
               /\ retry.result.retries = retry.max_retries
               /\ Len(retry.slept) = IF n = 0 THEN 0 ELSE n - 1

\* three attempts failed, two sleeps of 0.5 s and 1 s, then the failure dict
C30_Witness ==
    /\ retry.pc = "returned"
    /\ retry.max_retries = 3
    /\ retry.outcomes = <<"raises", "returns_success_false", "raises">>
    /\ retry.slept = <<5, 10>>
    /\ retry.result.retries = 3
    /\ ~retry.result.success

====
